---- MODULE Spec2Model ----
(***************************************************************************)
(* A model of arch-me-later's module pipeline:                             *)
(*   modules/orchestrator.py  PipelineOrchestrator (levelization, run)     *)
(*   modules/executor.py      ModuleExecutor.execute (one child process)   *)
(* run() is modelled on asyncio's event loop: `ready` is the loop's FIFO   *)
(* queue of handles, one loop step runs the handle at its head, and the    *)
(* operating system (process exits, timers, pipes, the caller) appends     *)
(* handles at its tail.                                                    *)
(***************************************************************************)
EXTENDS Integers, Sequences, FiniteSets, TLC

\* ------------------------------------------------------------------ bounds
MaxNames == 2
MaxModules == 2
MaxDeps == 1
MaxConcurrency == 2
MaxCallerCancels == 1
\* The larger graphs that levelization alone is checked on.
MaxGraphNames == 3
MaxGraphModules == 3
MaxGraphDeps == 2
\* One execution in detail: lines the child writes, cancellations of run().
MaxLines == 2
MaxExecCancels == 2
\* The streams of one execution: lines the child writes to stdout or stderr.
MaxWrites == 3

\* Module names, in lexicographic order (sorted() compares the strings).
NameSeq == <<"a", "b", "c", "d", "e">>

Min(x, y) == IF x <= y THEN x ELSE y

Names == {NameSeq[i] : i \in 1..Min(MaxNames, Len(NameSeq))}

GraphNames == {NameSeq[i] : i \in 1..Min(MaxGraphNames, Len(NameSeq))}

Rank(n) == CHOOSE i \in 1..Len(NameSeq) : NameSeq[i] = n

Range(s) == {s[i] : i \in 1..Len(s)}

SeqsUpTo(S, n) == UNION {[1..k -> S] : k \in 0..n}

\* ------------------------------------------------------------- ModuleSpec
\* executor.py ModuleSpec: the fields scheduling depends on. timeout is
\* TRUE for a finite timeout, FALSE for None.
ModuleSpec == [name : Names, deps : SeqsUpTo(Names, MaxDeps),
               check : BOOLEAN, timeout : BOOLEAN]

\* Specs over the larger graphs, with the defaults check=True, timeout=None.
GraphSpec == [name : GraphNames, deps : SeqsUpTo(GraphNames, MaxGraphDeps),
              check : {TRUE}, timeout : {FALSE}]

\* ------------------------------------------- PipelineOrchestrator.__init__
\* self._modules = {m.name: m for m in modules}: the dict's keys, in
\* insertion order (a repeated name keeps its first position).
RECURSIVE DictKeys(_)
DictKeys(mods) ==
    IF mods = << >> THEN << >>
    ELSE LET front == DictKeys(SubSeq(mods, 1, Len(mods) - 1))
             n == mods[Len(mods)].name
         IN IF n \in Range(front) THEN front ELSE Append(front, n)

\* self._modules[name]: the last spec given under that name.
ModuleOf(mods, n) ==
    mods[CHOOSE i \in 1..Len(mods) :
            /\ mods[i].name = n
            /\ \A j \in (i + 1)..Len(mods) : mods[j].name # n]

\* ---------------------------------- PipelineOrchestrator._topological_levels
\* for m in modules: for dep in m.deps: if dep not in self._modules: raise
UnknownDep(mods) ==
    \E n \in Range(DictKeys(mods)) :
        \E i \in 1..Len(ModuleOf(mods, n).deps) :
            ModuleOf(mods, n).deps[i] \notin Range(DictKeys(mods))

\* indeg[name] += 1 for every entry of m.deps (repetitions counted).
Indeg0(mods) ==
    [n \in Range(DictKeys(mods)) |-> Len(ModuleOf(mods, n).deps)]

\* children[dep].append(name), in dict order then deps order.
RECURSIVE ChildrenFrom(_, _, _, _)
ChildrenFrom(mods, keys, dep, k) ==
    IF k > Len(keys) THEN << >>
    ELSE LET ds == ModuleOf(mods, keys[k]).deps
             hits == SelectSeq(ds, LAMBDA d : d = dep)
         IN [i \in 1..Len(hits) |-> keys[k]] \o ChildrenFrom(mods, keys, dep, k + 1)

\* A variant that lists each child once however often it names the dependency.
ChildrenOnce(mods) ==
    [n \in Range(DictKeys(mods)) |->
        SelectSeq(DictKeys(mods), LAMBDA k : n \in Range(ModuleOf(mods, k).deps))]

Children(mods) ==
    [n \in Range(DictKeys(mods)) |-> ChildrenFrom(mods, DictKeys(mods), n, 1)]

\* A variant that leaves the frontier in the order it was built.
InsertLast(s, n) == Append(s, n)

\* sorted(frontier): insertion of each element into a sorted list.
InsertSorted(s, n) ==
    LET k == Cardinality({i \in 1..Len(s) : Rank(s[i]) <= Rank(n)})
    IN SubSeq(s, 1, k) \o <<n>> \o SubSeq(s, k + 1, Len(s))

RECURSIVE Sorted(_)
Sorted(s) ==
    IF s = << >> THEN << >>
    ELSE InsertSorted(Sorted(SubSeq(s, 1, Len(s) - 1)), s[Len(s)])

\* for c in children[n]: indeg[c] -= 1; if indeg[c] == 0: new_frontier.append(c)
RECURSIVE VisitChildren(_, _, _)
VisitChildren(cs, indeg, front) ==
    IF cs = << >> THEN [indeg |-> indeg, frontier |-> front]
    ELSE LET c == Head(cs)
             d == indeg[c] - 1
         IN VisitChildren(Tail(cs), [indeg EXCEPT ![c] = d],
                          IF d = 0 THEN Append(front, c) ELSE front)

\* for n in level: seen += 1; visit children[n]
RECURSIVE VisitLevel(_, _, _, _)
VisitLevel(level, children, indeg, front) ==
    IF level = << >> THEN [indeg |-> indeg, frontier |-> front]
    ELSE LET r == VisitChildren(children[Head(level)], indeg, front)
         IN VisitLevel(Tail(level), children, r.indeg, r.frontier)

\* while frontier: level = sorted(frontier); levels.append(level); ...
RECURSIVE KahnLoop(_, _, _, _, _)
KahnLoop(frontier, children, indeg, levels, seen) ==
    IF frontier = << >> THEN [levels |-> levels, seen |-> seen]
    ELSE LET level == Sorted(frontier)
             r == VisitLevel(level, children, indeg, << >>)
         IN KahnLoop(r.frontier, children, r.indeg, Append(levels, level),
                     seen + Len(level))

\* frontier = [name for name, d in indeg.items() if d == 0]
Kahn(mods) ==
    LET indeg == Indeg0(mods)
        frontier == SelectSeq(DictKeys(mods), LAMBDA n : indeg[n] = 0)
    IN KahnLoop(frontier, Children(mods), indeg, << >>, 0)

\* A variant without the `seen != len(self._modules)` check.
TopologicalLevelsNoCycleCheck(mods) ==
    IF UnknownDep(mods) THEN [error |-> "unknown dependency", levels |-> << >>]
    ELSE [error |-> "none", levels |-> Kahn(mods).levels]

\* The levels, or the ValueError _topological_levels raises.
TopologicalLevels(mods) ==
    IF UnknownDep(mods) THEN [error |-> "unknown dependency", levels |-> << >>]
    ELSE LET k == Kahn(mods)
         IN IF k.seen # Len(DictKeys(mods))
            THEN [error |-> "cycle", levels |-> << >>]
            ELSE [error |-> "none", levels |-> k.levels]

\* __init__: the checks in the order the constructor makes them.
Construct(mods, conc) ==
    IF conc < 1 THEN [error |-> "concurrency", levels |-> << >>]
    ELSE IF Len(DictKeys(mods)) # Len(mods)
    THEN [error |-> "duplicate name", levels |-> << >>]
    ELSE TopologicalLevels(mods)

\* ------------------------------------------------------------------ state
VARIABLES
    modules,        \* the ModuleSpec sequence given to the constructor
    concurrency,    \* the concurrency argument
    fail_fast,      \* the fail_fast argument
    orch,           \* "none" | "ok" (object exists) | "error" (ValueError)
    ctorError,      \* which ValueError the constructor raised
    levels,         \* self._levels
    mainPc,         \* run(): "idle" | "tg_wait" | "gather_wait" | "returned" | "raised"
    mainCancel,     \* a CancelledError is due at run()'s next step
    lvl,            \* 1-based index of the level in progress
    runError,       \* what run() raised: [type, errors]
    semValue,       \* sem._value
    semWaiters,     \* sem._waiters: <<[m, state]>>, state pending | granted | cancelled
    results,        \* the results dict
    failures,       \* the failures dict
    ready,          \* the event loop's FIFO of handles
    pc,             \* per module task: where its coroutine is suspended
    cancelReq,      \* per module task: a CancelledError is due at its next step
    outcome,        \* per module task: how the task ended
    proc,           \* per module: the child process, "none" | "running" |
                    \* "killed" (sent SIGKILL, not yet reaped) | "exited"
    returncode,     \* per module: proc.returncode as the loop knows it
    termSent,       \* per module: SIGTERM was sent to the process group
    killSent,       \* per module: SIGKILL was sent to the process group
    readers,        \* per module: the stream-reading tasks
    cause,          \* per module: the exception execute's handler re-raises
    timerFired,     \* per module: the armed wait_for timer has fired
    tgTasks,        \* TaskGroup._tasks
    tgErrors,       \* TaskGroup._errors
    tgAborting,     \* TaskGroup._aborting
    tgParentCancelRequested,
    tgPropagate,    \* __aexit__'s propagate_cancellation_error
    tgFut,          \* TaskGroup._on_completed_fut: "none" | "pending" | "done"
    gPending,       \* gather: children that have not reported completion
    gCancelRequested, \* gather: outer._cancel_requested
    recorded,       \* per module: number of writes to results/failures
    returned,       \* the value run() returned to its caller, if it returned
    desc,           \* per module: a descendant in the child's process group,
                    \* "none" | "piped" (running, holds the output pipe) |
                    \* "detached" (running, output redirected) |
                    \* "escaped" (running in a session of its own, holds
                    \* the output pipe) | "exited"
    written,        \* per module: lines the child has written to its pipe
    consumed,       \* per module: lines readline() has returned
    calls,          \* per module: the callback invocations that ended,
                    \* <<[line, raised]>>
    callerCancels,  \* how many times the caller cancelled run()
    environ,        \* os.environ of the parent process
    specEnv,        \* spec.env of the module being run
    exeEnv,         \* ModuleExecutor.env, once the executor is constructed
    childEnv,       \* the environment the child was spawned with
    spec_stdout_cb, \* spec.stdout_cb, if given
    spec_stderr_cb, \* spec.stderr_cb, if given
    default_stdout_cb, \* the constructor's default_stdout_cb, if given
    default_stderr_cb, \* the constructor's default_stderr_cb, if given
    stdout_cb,      \* execute's stdout_cb argument, once execute is called
    stderr_cb,      \* execute's stderr_cb argument, if any
    captured,       \* the streams execute reads: the pipes and their readers
    pipe,           \* per stream: the lines written and not yet read
    nlines,         \* number of lines the child has written
    running,        \* per stream: the lines whose callback is running
    events          \* the callback invocations: <<[stream, cb, line, ev]>>

envVars == <<environ, specEnv, exeEnv, childEnv>>

streamVars == <<spec_stdout_cb, spec_stderr_cb, default_stdout_cb,
                default_stderr_cb, stdout_cb, stderr_cb, captured, pipe,
                nlines, running, events>>

cfgVars == <<modules, concurrency, fail_fast, orch, ctorError, levels, envVars,
             streamVars>>

loopVars == <<mainPc, mainCancel, lvl, runError, semValue, semWaiters, results,
              failures, ready, pc, cancelReq, outcome, proc,
              returncode, termSent, killSent, readers, cause, timerFired,
              tgTasks, tgErrors, tgAborting, tgParentCancelRequested,
              tgPropagate, tgFut, gPending, gCancelRequested, recorded,
              returned, desc, written, consumed, calls>>

vars == <<cfgVars, loopVars, callerCancels>>

\* An optional value is the empty set (None) or the set of the one value.
None == {}
Some(x) == {x}
The(o) == CHOOSE x \in o : TRUE
NoError == [type |-> "none", errors |-> << >>]

\* The loop state as one record, so that a handler's effects compose.
Cur ==
    [mainPc |-> mainPc, mainCancel |-> mainCancel, lvl |-> lvl,
     runError |-> runError, semValue |-> semValue, semWaiters |-> semWaiters,
     results |-> results, failures |-> failures, ready |-> ready, pc |-> pc,
     cancelReq |-> cancelReq, outcome |-> outcome, proc |-> proc,
     returncode |-> returncode, termSent |-> termSent,
     killSent |-> killSent, readers |-> readers, cause |-> cause,
     timerFired |-> timerFired, tgTasks |-> tgTasks, tgErrors |-> tgErrors,
     tgAborting |-> tgAborting,
     tgParentCancelRequested |-> tgParentCancelRequested,
     tgPropagate |-> tgPropagate, tgFut |-> tgFut, gPending |-> gPending,
     gCancelRequested |-> gCancelRequested, recorded |-> recorded,
     returned |-> returned, desc |-> desc, written |-> written,
     consumed |-> consumed, calls |-> calls]

Become(S) ==
    /\ mainPc' = S.mainPc /\ mainCancel' = S.mainCancel /\ lvl' = S.lvl
    /\ runError' = S.runError /\ semValue' = S.semValue
    /\ semWaiters' = S.semWaiters /\ results' = S.results
    /\ failures' = S.failures /\ ready' = S.ready /\ pc' = S.pc
    /\ cancelReq' = S.cancelReq /\ outcome' = S.outcome /\ proc' = S.proc
    /\ returncode' = S.returncode
    /\ termSent' = S.termSent /\ killSent' = S.killSent
    /\ readers' = S.readers /\ cause' = S.cause
    /\ timerFired' = S.timerFired /\ tgTasks' = S.tgTasks
    /\ tgErrors' = S.tgErrors /\ tgAborting' = S.tgAborting
    /\ tgParentCancelRequested' = S.tgParentCancelRequested
    /\ tgPropagate' = S.tgPropagate /\ tgFut' = S.tgFut
    /\ gPending' = S.gPending /\ gCancelRequested' = S.gCancelRequested
    /\ recorded' = S.recorded
    /\ returned' = S.returned
    /\ desc' = S.desc /\ written' = S.written
    /\ consumed' = S.consumed /\ calls' = S.calls

\* ---------------------------------------------------------------- handles
StepH(m) == [kind |-> "step", m |-> m]
DoneH(m) == [kind |-> "done", m |-> m]
MainH == [kind |-> "main", m |-> "-"]

Queued(S, h) == \E i \in 1..Len(S.ready) : S.ready[i] = h

\* loop.call_soon(h)
CallSoon(S, h) == [S EXCEPT !.ready = Append(@, h)]

\* A future's result or cancellation wakes the task awaiting it, once.
Wake(S, h) == IF Queued(S, h) THEN S ELSE CallSoon(S, h)

Mod(m) == ModuleOf(modules, m)

\* ------------------------------------------------------ asyncio.Semaphore
\* A variant that looks at the waiters only, not at the value.
LockedByWaitersOnly(S) ==
    \E i \in 1..Len(S.semWaiters) : S.semWaiters[i].state # "cancelled"

\* locked(): value == 0 or any waiter that is not cancelled
Locked(S) ==
    \/ S.semValue = 0
    \/ \E i \in 1..Len(S.semWaiters) : S.semWaiters[i].state # "cancelled"

\* _wake_up_next(): hand the permit to the first waiter that is not done
WakeUpNext(S) ==
    LET idx == {i \in 1..Len(S.semWaiters) : S.semWaiters[i].state = "pending"}
    IN IF idx = {} THEN S
       ELSE LET i == CHOOSE j \in idx : \A k \in idx : j <= k
            IN CallSoon([S EXCEPT !.semValue = @ - 1,
                                  !.semWaiters[i].state = "granted"],
                        StepH(S.semWaiters[i].m))

\* release()
Release(S) == WakeUpNext([S EXCEPT !.semValue = @ + 1])

\* ----------------------------------------------------------- module tasks
\* The task's coroutine has finished: its done callbacks are scheduled, and
\* execute's locals and its handle on the process (executor.py:211) are gone.
EndTask(S, m, out) ==
    CallSoon([S EXCEPT !.pc[m] = "done", !.outcome[m] = out,
                       !.cancelReq[m] = FALSE, !.cause[m] = "none",
                       !.timerFired[m] = FALSE, !.returncode[m] = None],
             DoneH(m))

\* Leaving `async with sem` (orchestrator.py:96), by return or by exception.
Leave(S, m, out) == EndTask(Release(S), m, out)

\* executor.py:121 create_subprocess_exec: the child is forked before the
\* coroutine first suspends; ok = FALSE is an OSError from the fork/exec.
Spawn(S, m, ok) ==
    IF ok THEN [S EXCEPT !.proc[m] = "running", !.pc[m] = "spawn"]
    ELSE Leave(S, m, "OSError")

\* A reader task that has not finished: it awaits readline() ("active"), the
\* callback ("dispatch") or the logging of a callback's error ("logging").
ReaderLive(S, m) == S.readers[m] \in {"active", "dispatch", "logging"}

CancelReaders(S, m) ==
    IF ReaderLive(S, m) THEN [S EXCEPT !.readers[m] = "cancelled"] ELSE S

\* A descendant of the child keeps the write end of the output pipe open.
PipeHeld(S, m) == S.desc[m] \in {"piped", "escaped"}

\* A pending proc.wait() has its result: the child was reaped and its pipes
\* are disconnected, which a descendant that holds the pipe delays. (A
\* proc.wait() called when returncode is already set returns at once.)
WaitDone(S, m) == S.returncode[m] # None /\ ~PipeHeld(S, m)

\* os.killpg(pgid, SIGKILL): every member of the group dies (a descendant
\* that left the group does not); the loop learns of the leader's exit later.
KillGroup(S, m) ==
    [S EXCEPT !.killSent[m] = TRUE,
              !.proc[m] = IF @ = "running" THEN "killed" ELSE @,
              !.desc[m] = IF @ \in {"piped", "detached"} THEN "exited" ELSE @]

\* executor.py:188-191: cancel the readers and await them
CancelDrain(S, m) ==
    Wake([CancelReaders(S, m) EXCEPT !.pc[m] = "cdrain", !.cancelReq[m] = FALSE],
         StepH(m))

\* A variant that does not await the readers before it goes on.
EnterDrainNoGather(S, m) ==
    Wake([S EXCEPT !.pc[m] = "drain", !.cancelReq[m] = FALSE], StepH(m))

\* executor.py:157-158: await asyncio.gather(*tasks)
EnterDrain(S, m) ==
    LET T == [S EXCEPT !.pc[m] = "drain", !.cancelReq[m] = FALSE]
    IN IF ~ReaderLive(T, m) THEN Wake(T, StepH(m)) ELSE T

\* executor.py:164-177: except (TimeoutError, CancelledError), up to the
\* grace wait
Handler(S, m, why) ==
    LET T == [S EXCEPT !.cause[m] = why, !.cancelReq[m] = FALSE,
                       !.timerFired[m] = FALSE]
    IN IF T.returncode[m] = None
       THEN [T EXCEPT !.termSent[m] = TRUE, !.pc[m] = "grace"]
       ELSE CancelDrain(T, m)

\* A variant that raises ProcessError on a non-zero exit whatever check is.
FinishAlwaysChecks(S, m) ==
    LET rc == The(S.returncode[m])
    IN IF rc # 0
       THEN Wake([S EXCEPT !.pc[m] = "edrain", !.cause[m] = "ProcessError"],
                 StepH(m))
       ELSE Leave([S EXCEPT !.results = (m :> rc) @@ @,
                            !.recorded[m] = @ + 1], m, "ok")

\* executor.py:160-162 and orchestrator.py:109
Finish(S, m) ==
    LET rc == The(S.returncode[m])
    IN IF Mod(m).check /\ rc # 0
       THEN Wake([S EXCEPT !.pc[m] = "edrain", !.cause[m] = "ProcessError"],
                 StepH(m))
       ELSE Leave([S EXCEPT !.results = (m :> rc) @@ @,
                            !.recorded[m] = @ + 1], m, "ok")

\* A variant that reports a timeout as a failed exit.
RaisedAsProcessError(why) ==
    IF why = "CancelledError" THEN "cancelled"
    ELSE IF why = "TimeoutError" THEN "ProcessError" ELSE why

\* What the handler re-raises with the bare `raise`.
Raised(why) == IF why = "CancelledError" THEN "cancelled" ELSE why

\* One step of module m's task: from the await it is suspended at to the next.
\* ok: the spawn succeeds.
TaskStep(S, m, ok) ==
    LET c == S.cancelReq[m]
        exited == S.returncode[m] # None
    IN
    CASE S.pc[m] = "new" ->
            IF c THEN EndTask(S, m, "cancelled")
            ELSE IF ~Locked(S) THEN Spawn([S EXCEPT !.semValue = @ - 1], m, ok)
            ELSE [S EXCEPT !.semWaiters = Append(@, [m |-> m, state |-> "pending"]),
                           !.pc[m] = "acquire"]
      [] S.pc[m] = "acquire" ->
            LET i == CHOOSE j \in 1..Len(S.semWaiters) : S.semWaiters[j].m = m
                w == S.semWaiters[i]
                T == [S EXCEPT !.semWaiters =
                         SubSeq(@, 1, i - 1) \o SubSeq(@, i + 1, Len(@))]
            IN IF c
               THEN IF w.state = "granted"
                    THEN EndTask(Release(T), m, "cancelled")
                    ELSE EndTask(T, m, "cancelled")
               ELSE Spawn(IF T.semValue > 0 THEN WakeUpNext(T) ELSE T, m, ok)
      [] S.pc[m] = "spawn" ->
            IF c
            THEN LET T == [S EXCEPT !.proc[m] = IF @ = "running" THEN "killed"
                                                 ELSE @,
                                    !.cancelReq[m] = FALSE]
                 IN IF exited THEN Leave(T, m, "cancelled")
                    ELSE [T EXCEPT !.pc[m] = "spawnclean"]
            ELSE LET T == [S EXCEPT !.readers[m] = "active",
                                    !.timerFired[m] = FALSE]
                 IN IF exited THEN EnterDrain(T, m)
                    ELSE [T EXCEPT !.pc[m] = "wait"]
      [] S.pc[m] = "spawnclean" -> Leave(S, m, "cancelled")
      [] S.pc[m] = "wait" ->
            IF c THEN Handler(S, m, "CancelledError")
            ELSE IF S.timerFired[m] THEN Handler(S, m, "TimeoutError")
            ELSE EnterDrain(S, m)
      [] S.pc[m] = "drain" ->
            IF c THEN Handler(S, m, "CancelledError")
            ELSE IF S.readers[m] = "failed"
            THEN Wake([S EXCEPT !.pc[m] = "edrain", !.cause[m] = "CallbackError"],
                      StepH(m))
            ELSE Finish(S, m)
      [] S.pc[m] = "grace" ->
            IF c THEN Leave(S, m, "cancelled")
            ELSE IF S.timerFired[m]
            THEN LET T == KillGroup(S, m)
                 IN IF exited THEN CancelDrain(T, m)
                    ELSE [T EXCEPT !.pc[m] = "killwait"]
            ELSE CancelDrain(S, m)
      [] S.pc[m] = "killwait" ->
            IF c THEN Leave(S, m, "cancelled") ELSE CancelDrain(S, m)
      [] S.pc[m] \in {"cdrain", "edrain"} ->
            IF c THEN Leave(S, m, "cancelled")
            ELSE Leave(S, m, Raised(S.cause[m]))
      [] OTHER -> S

\* The task is suspended in asyncio.wait_for (executor.py:155, 177) and the
\* awaited proc.wait() has its result, the timer not having fired first.
InnerDone(S, m) ==
    /\ \/ S.pc[m] = "wait" /\ Mod(m).timeout
       \/ S.pc[m] = "grace"
    /\ WaitDone(S, m) /\ ~S.timerFired[m]

\* task.cancel() on module m's task. keep: wait_for returns the result of an
\* inner future that is done although it was cancelled (asyncio.wait_for up
\* to Python 3.11 does, later versions raise CancelledError).
RequestCancel(S, m, keep) ==
    IF S.pc[m] \in {"idle", "done"} \/ (keep /\ InnerDone(S, m)) THEN S
    ELSE LET T == [S EXCEPT !.cancelReq[m] = TRUE]
             U == CASE S.pc[m] = "acquire" ->
                        [T EXCEPT !.semWaiters =
                            [i \in 1..Len(@) |->
                                IF @[i].m = m /\ @[i].state = "pending"
                                THEN [@[i] EXCEPT !.state = "cancelled"]
                                ELSE @[i]]]
                    [] S.pc[m] = "drain" -> CancelReaders(T, m)
                    [] OTHER -> T
         IN Wake(U, StepH(m))

RECURSIVE CancelEach(_, _, _)
CancelEach(S, order, keep) ==
    IF order = << >> THEN S
    ELSE CancelEach(RequestCancel(S, Head(order), keep), Tail(order), keep)

Orders(T) == {o \in [1..Cardinality(T) -> T] : Range(o) = T}

\* ---------------------------------------------------------- run(): levels
\* A variant that raises only when fail_fast is set.
EndRunRaiseIfFailFast(S) ==
    IF DOMAIN S.failures # {} /\ fail_fast
    THEN [S EXCEPT !.mainPc = "raised",
                   !.runError = [type |-> "OrchestrationError",
                                 errors |-> S.failures]]
    ELSE [S EXCEPT !.mainPc = "returned", !.returned = Some(S.results)]

\* orchestrator.py:151-154, after the last level
EndRun(S) ==
    IF DOMAIN S.failures # {} /\ ~fail_fast
    THEN [S EXCEPT !.mainPc = "raised",
                   !.runError = [type |-> "OrchestrationError",
                                 errors |-> S.failures]]
    ELSE [S EXCEPT !.mainPc = "returned", !.returned = Some(S.results)]

\* create_task for each name of the level, in the level's order
RECURSIVE CreateTasks(_, _)
CreateTasks(S, level) ==
    IF level = << >> THEN S
    ELSE CreateTasks(CallSoon([S EXCEPT !.pc[Head(level)] = "new"],
                              StepH(Head(level))),
                     Tail(level))

\* The waits of StartLevel below, one per mode.
AwaitLevel(T, names) ==
    IF fail_fast
    THEN [T EXCEPT !.mainPc = "tg_wait", !.tgTasks = names,
                   !.tgErrors = << >>, !.tgAborting = FALSE,
                   !.tgParentCancelRequested = FALSE,
                   !.tgPropagate = FALSE, !.tgFut = "pending"]
    ELSE [T EXCEPT !.mainPc = "gather_wait", !.gPending = names,
                   !.gCancelRequested = FALSE]

\* A variant that creates the tasks of the following level together with
\* those of level k.
StartLevelAndNext(S, k) ==
    IF k > Len(levels) \/ (fail_fast /\ DOMAIN S.failures # {}) THEN EndRun(S)
    ELSE LET both == IF k < Len(levels) THEN levels[k] \o levels[k + 1]
                     ELSE levels[k]
         IN AwaitLevel(CreateTasks([S EXCEPT !.lvl = k], both), Range(both))

\* A variant that stops at recorded failures whatever fail_fast is.
StartLevelStopOnFailure(S, k) ==
    IF k > Len(levels) \/ DOMAIN S.failures # {} THEN EndRun(S)
    ELSE AwaitLevel(CreateTasks([S EXCEPT !.lvl = k], levels[k]),
                    Range(levels[k]))

\* orchestrator.py:122-146: one iteration of `for level in self._levels`, up
\* to the await that ends it (TaskGroup.__aexit__ or gather)
StartLevel(S, k) ==
    IF k > Len(levels) \/ (fail_fast /\ DOMAIN S.failures # {}) THEN EndRun(S)
    ELSE AwaitLevel(CreateTasks([S EXCEPT !.lvl = k], levels[k]),
                    Range(levels[k]))

\* ------------------------------------------------------ asyncio.TaskGroup
\* TaskGroup._abort(): cancel every task of the group that is not done;
\* `order` is the iteration order of the set self._tasks.
Abort(S, order, keep) == CancelEach([S EXCEPT !.tgAborting = TRUE], order, keep)

\* task.cancel() on the task running run()
CancelMain(S) ==
    Wake([S EXCEPT !.mainCancel = TRUE,
                   !.tgFut = IF @ = "pending" THEN "done" ELSE @],
         MainH)

\* TaskGroup._on_task_done(task)
OnTaskDone(S, m, order, keep) ==
    LET left == S.tgTasks \ {m}
        A == [S EXCEPT !.tgTasks = left]
        B == IF A.tgFut = "pending" /\ left = {}
             THEN Wake([A EXCEPT !.tgFut = "done"], MainH) ELSE A
    IN IF S.outcome[m] \in {"ok", "cancelled"} THEN B
       ELSE LET C == [B EXCEPT !.tgErrors =
                          Append(@, [m |-> m, error |-> S.outcome[m]])]
            IN IF ~C.tgAborting /\ ~C.tgParentCancelRequested
               THEN CancelMain([Abort(C, order, keep) EXCEPT
                                   !.tgParentCancelRequested = TRUE])
               ELSE C

\* TaskGroup.__aexit__: one turn of `while self._tasks: await ...`, and what
\* follows the loop
TaskGroupStep(S, order, keep) ==
    LET A == IF S.mainCancel /\ ~S.tgAborting
             THEN [Abort(S, order, keep) EXCEPT !.tgPropagate = TRUE] ELSE S
        B == [A EXCEPT !.mainCancel = FALSE, !.tgFut = "none"]
    IN IF B.tgTasks # {} THEN [B EXCEPT !.tgFut = "pending"]
       ELSE IF B.tgPropagate /\ B.tgErrors = << >>
       THEN [B EXCEPT !.mainPc = "raised",
                      !.runError = [type |-> "CancelledError", errors |-> << >>]]
       ELSE IF B.tgErrors # << >>
       THEN [B EXCEPT !.mainPc = "raised",
                      !.runError = [type |-> "ExceptionGroup",
                                    errors |-> B.tgErrors]]
       ELSE StartLevel(B, B.lvl + 1)

\* ---------------------------------------------------------- asyncio.gather
\* gather's _done_callback(fut)
OnGatherDone(S, m) ==
    LET T == [S EXCEPT !.gPending = @ \ {m}]
    IN IF T.gPending = {} THEN Wake(T, MainH) ELSE T

\* A variant that files every module of the level under failures.
RECURSIVE CollectEvery(_, _)
CollectEvery(S, level) ==
    IF level = << >> THEN S
    ELSE CollectEvery([S EXCEPT !.failures = (Head(level) :> S.outcome[Head(level)]) @@ @,
                                !.recorded[Head(level)] = @ + 1],
                      Tail(level))

\* orchestrator.py:147-149
RECURSIVE Collect(_, _)
Collect(S, level) ==
    IF level = << >> THEN S
    ELSE LET n == Head(level)
         IN Collect(IF S.outcome[n] # "ok"
                    THEN [S EXCEPT !.failures = (n :> S.outcome[n]) @@ @,
                                   !.recorded[n] = @ + 1]
                    ELSE S,
                    Tail(level))

\* orchestrator.py:146-149: run() resumes from `await asyncio.gather(...)`
GatherStep(S) ==
    IF S.mainCancel \/ S.gCancelRequested
    THEN [S EXCEPT !.mainPc = "raised", !.mainCancel = FALSE,
                   !.runError = [type |-> "CancelledError", errors |-> << >>]]
    ELSE StartLevel(Collect(S, levels[S.lvl]), S.lvl + 1)

\* The caller cancels the task that awaits run().
CancelRun(S, keep) ==
    IF S.mainPc = "tg_wait" THEN CancelMain(S)
    ELSE IF S.gPending = {} THEN [S EXCEPT !.mainCancel = TRUE]
    ELSE LET live == SelectSeq(levels[S.lvl], LAMBDA n : S.pc[n] # "done")
         IN IF live = << >> THEN [S EXCEPT !.mainCancel = TRUE]
            ELSE CancelEach([S EXCEPT !.gCancelRequested = TRUE], live, keep)

\* ------------------------------------------------------------------- Init
EmptyMap == [n \in {} |-> 0]

\* Exit statuses: a process that exits by itself, one killed by SIGTERM, one
\* killed by SIGKILL.
ExitCodes(m) ==
    IF proc[m] = "killed" THEN {-9} ELSE IF termSent[m] THEN {-15} ELSE {0, 1}

LoopInit ==
    /\ mainPc = "idle" /\ mainCancel = FALSE /\ lvl = 0
    /\ runError = NoError
    /\ semValue = 0 /\ semWaiters = << >>
    /\ results = EmptyMap /\ failures = EmptyMap
    /\ ready = << >>
    /\ pc = [n \in Names |-> "idle"]
    /\ cancelReq = [n \in Names |-> FALSE]
    /\ outcome = [n \in Names |-> "none"]
    /\ proc = [n \in Names |-> "none"]
    /\ returncode = [n \in Names |-> None]
    /\ termSent = [n \in Names |-> FALSE]
    /\ killSent = [n \in Names |-> FALSE]
    /\ readers = [n \in Names |-> "none"]
    /\ cause = [n \in Names |-> "none"]
    /\ timerFired = [n \in Names |-> FALSE]
    /\ tgTasks = {} /\ tgErrors = << >> /\ tgAborting = FALSE
    /\ tgParentCancelRequested = FALSE /\ tgPropagate = FALSE
    /\ tgFut = "none"
    /\ gPending = {} /\ gCancelRequested = FALSE
    /\ recorded = [n \in Names |-> 0]
    /\ returned = None
    /\ desc = [n \in Names |-> "none"]
    /\ written = [n \in Names |-> 0]
    /\ consumed = [n \in Names |-> 0]
    /\ calls = [n \in Names |-> << >>]
    /\ callerCancels = 0

\* Environments are left out of the scheduling model: an empty os.environ
\* and no spec.env.
EnvIdle ==
    /\ environ = EmptyMap /\ specEnv = None
    /\ exeEnv = None /\ childEnv = None

Streams == {"stdout", "stderr"}

\* Callbacks and streams are left out of the scheduling model.
StreamsIdle ==
    /\ spec_stdout_cb = None /\ spec_stderr_cb = None
    /\ default_stdout_cb = None /\ default_stderr_cb = None
    /\ stdout_cb = None /\ stderr_cb = None
    /\ captured = {} /\ nlines = 0
    /\ pipe = [s \in Streams |-> << >>]
    /\ running = [s \in Streams |-> {}]
    /\ events = << >>

Init ==
    /\ modules = << >>
    /\ concurrency \in 0..MaxConcurrency
    /\ fail_fast \in BOOLEAN
    /\ orch = "none" /\ ctorError = "none" /\ levels = << >>
    /\ LoopInit
    /\ EnvIdle
    /\ StreamsIdle

\* ---------------------------------------------------------------- actions
\* The caller declares one more ModuleSpec of the list it will pass.
Declare ==
    /\ orch = "none" /\ Len(modules) < MaxModules
    /\ \E s \in ModuleSpec : modules' = Append(modules, s)
    /\ UNCHANGED <<concurrency, fail_fast, orch, ctorError, levels, loopVars,
                   callerCancels, envVars, streamVars>>

DeclareGraph ==
    /\ orch = "none" /\ Len(modules) < MaxGraphModules
    /\ \E s \in GraphSpec : modules' = Append(modules, s)
    /\ UNCHANGED <<concurrency, fail_fast, orch, ctorError, levels, loopVars,
                   callerCancels, envVars, streamVars>>

\* PipelineOrchestrator(modules, concurrency=..., fail_fast=...)
NewOrchestrator ==
    /\ orch = "none"
    /\ LET r == Construct(modules, concurrency)
       IN /\ orch' = IF r.error = "none" THEN "ok" ELSE "error"
          /\ ctorError' = r.error
          /\ levels' = r.levels
    /\ UNCHANGED <<modules, concurrency, fail_fast, loopVars, callerCancels,
                   envVars, streamVars>>

\* await orchestrator.run(): up to the first level's await
RunStart ==
    /\ orch = "ok" /\ mainPc = "idle"
    /\ Become(StartLevel([Cur EXCEPT !.semValue = concurrency], 1))
    /\ UNCHANGED <<cfgVars, callerCancels>>

Popped == [Cur EXCEPT !.ready = Tail(@)]

\* A variant that calls a synchronous callback inline, cb(text), on the
\* loop's thread.
CallbackInline(m) == readers[m] = "dispatch"

\* executor.py:72-75: the callback occupies the event loop's thread while it
\* runs. It never does: an async callback is awaited and a synchronous one
\* runs in a worker thread (asyncio.to_thread).
CallbackOnLoop(m) == FALSE

\* The loop's thread is occupied and runs no handle.
LoopBusy == \E m \in Names : CallbackOnLoop(m)

\* The loop runs a module task's step.
RunTaskStep ==
    /\ ~LoopBusy
    /\ ready # << >> /\ Head(ready).kind = "step"
    /\ \E ok \in BOOLEAN : Become(TaskStep(Popped, Head(ready).m, ok))
    /\ UNCHANGED <<cfgVars, callerCancels>>

\* The loop runs a finished task's done callback.
RunTaskDone ==
    /\ ~LoopBusy
    /\ ready # << >> /\ Head(ready).kind = "done"
    /\ IF fail_fast
       THEN \E order \in Orders(tgTasks \ {Head(ready).m}), keep \in BOOLEAN :
               Become(OnTaskDone(Popped, Head(ready).m, order, keep))
       ELSE Become(OnGatherDone(Popped, Head(ready).m))
    /\ UNCHANGED <<cfgVars, callerCancels>>

\* The loop resumes run().
RunMainStep ==
    /\ ~LoopBusy
    /\ ready # << >> /\ Head(ready).kind = "main"
    /\ IF fail_fast
       THEN \E order \in Orders(tgTasks), keep \in BOOLEAN :
               Become(TaskGroupStep(Popped, order, keep))
       ELSE Become(GatherStep(Popped))
    /\ UNCHANGED <<cfgVars, callerCancels>>

\* The child process of module m exits and the loop learns of it
\* (transport._process_exited): proc.returncode is set and the future that
\* proc.wait() awaits gets its result.
ProcExit(m) ==
    /\ proc[m] \in {"running", "killed"}
    /\ \E code \in ExitCodes(m) :
          LET T == [Cur EXCEPT !.proc[m] = "exited",
                               !.returncode[m] = IF pc[m] = "done" THEN None
                                                 ELSE Some(code)]
          IN Become(IF \/ pc[m] = "spawnclean"
                       \/ pc[m] \in {"wait", "grace", "killwait"} /\ WaitDone(T, m)
                    THEN Wake(T, StepH(m)) ELSE T)
    /\ UNCHANGED <<cfgVars, callerCancels>>

\* The subprocess transport's pipes are connected: create_subprocess_exec
\* returns.
Connected(m) ==
    /\ pc[m] = "spawn" /\ ~Queued(Cur, StepH(m))
    /\ Become(CallSoon(Cur, StepH(m)))
    /\ UNCHANGED <<cfgVars, callerCancels>>

\* The readers reach end of file and finish: every holder of the pipe has
\* closed it and the buffered lines are read.
ReaderEOF(m) ==
    /\ readers[m] = "active" /\ ~PipeHeld(Cur, m) /\ consumed[m] = written[m]
    /\ LET T == [Cur EXCEPT !.readers[m] = "eof"]
       IN Become(IF pc[m] = "drain" THEN Wake(T, StepH(m)) ELSE T)
    /\ UNCHANGED <<cfgVars, callerCancels>>

\* The module's timeout, or the termination grace, elapses: the wait_for
\* timer runs (_release_waiter).
TimerExpires(m) ==
    /\ \/ pc[m] = "wait" /\ Mod(m).timeout
       \/ pc[m] = "grace"
    /\ ~timerFired[m]
    /\ Become(Wake([Cur EXCEPT !.timerFired[m] = TRUE], StepH(m)))
    /\ UNCHANGED <<cfgVars, callerCancels>>

\* The caller cancels run() while it is in progress, at most n times.
CallerCancelUpTo(n) ==
    /\ mainPc \in {"tg_wait", "gather_wait"}
    /\ callerCancels < n
    /\ callerCancels' = callerCancels + 1
    /\ \E keep \in BOOLEAN : Become(CancelRun(Cur, keep))
    /\ UNCHANGED cfgVars

CallerCancel == CallerCancelUpTo(MaxCallerCancels)

\* ------------------------------------------- one execution, in detail
\* The child starts a process of its own, which inherits the output pipe
\* unless its output is redirected, and stays in the child's session and
\* process group (start_new_session, executor.py:129) unless it starts a
\* session of its own (setsid).
Fork(m) ==
    /\ proc[m] = "running" /\ desc[m] = "none"
    /\ \E d \in {"piped", "detached", "escaped"} :
          Become([Cur EXCEPT !.desc[m] = d])
    /\ UNCHANGED <<cfgVars, callerCancels>>

\* The descendant exits, by itself or on a signal; when it was the last
\* holder of the pipe of a reaped child, proc.wait() gets its result.
DescExit(m) ==
    /\ desc[m] \in {"piped", "detached", "escaped"}
    /\ LET T == [Cur EXCEPT !.desc[m] = "exited"]
       IN Become(IF pc[m] \in {"wait", "grace", "killwait"} /\ ~WaitDone(Cur, m)
                    /\ WaitDone(T, m)
                 THEN Wake(T, StepH(m)) ELSE T)
    /\ UNCHANGED <<cfgVars, callerCancels>>

\* The child, or the descendant that shares its pipe, writes a line.
ChildWrites(m) ==
    /\ proc[m] = "running" \/ PipeHeld(Cur, m)
    /\ readers[m] \notin {"eof"} /\ written[m] < MaxLines
    /\ Become([Cur EXCEPT !.written[m] = @ + 1])
    /\ UNCHANGED <<cfgVars, callerCancels>>

\* executor.py:91-97: readline() returns the next line and the reader awaits
\* its dispatch to the callback.
ReaderReads(m) ==
    /\ readers[m] = "active" /\ consumed[m] < written[m]
    /\ Become([Cur EXCEPT !.consumed[m] = @ + 1, !.readers[m] = "dispatch"])
    /\ UNCHANGED <<cfgVars, callerCancels>>

\* executor.py:72-75: the callback returns and the reader loops.
CallbackReturns(m) ==
    /\ readers[m] = "dispatch"
    /\ Become([Cur EXCEPT !.calls[m] = Append(@, [line |-> consumed[m],
                                                  raised |-> FALSE]),
                          !.readers[m] = "active"])
    /\ UNCHANGED <<cfgVars, callerCancels>>

\* A variant of _dispatch without the try: the error ends the reader task,
\* and the gather that awaits it.
CallbackRaisedUncaught(S, m) ==
    LET T == [S EXCEPT !.calls[m] = Append(@, [line |-> S.consumed[m],
                                              raised |-> TRUE]),
                       !.readers[m] = "failed"]
    IN IF T.pc[m] = "drain" THEN Wake(T, StepH(m)) ELSE T

\* executor.py:76-78: the callback raised an Exception, which _dispatch
\* catches; it goes on to log it.
CallbackRaised(S, m) ==
    [S EXCEPT !.calls[m] = Append(@, [line |-> S.consumed[m], raised |-> TRUE]),
              !.readers[m] = "logging"]

CallbackRaises(m) ==
    /\ readers[m] = "dispatch"
    /\ Become(CallbackRaised(Cur, m))
    /\ UNCHANGED <<cfgVars, callerCancels>>

\* The logging call returns and the reader loops.
LogDone(m) ==
    /\ readers[m] = "logging"
    /\ Become([Cur EXCEPT !.readers[m] = "active"])
    /\ UNCHANGED <<cfgVars, callerCancels>>

\* An orchestrator of the single module "a", ready to run.
ExecInit ==
    /\ \E s \in ModuleSpec :
          /\ s.name = "a" /\ s.deps = << >>
          /\ modules = <<s>>
    /\ concurrency = 1
    /\ fail_fast \in BOOLEAN
    /\ orch = "ok" /\ ctorError = "none" /\ levels = << <<"a">> >>
    /\ LoopInit
    /\ EnvIdle
    /\ StreamsIdle

NextExec ==
    \/ RunStart
    \/ RunTaskStep
    \/ RunTaskDone
    \/ RunMainStep
    \/ CallerCancelUpTo(MaxExecCancels)
    \/ \E m \in Names : ProcExit(m)
    \/ \E m \in Names : Connected(m)
    \/ \E m \in Names : ReaderEOF(m)
    \/ \E m \in Names : TimerExpires(m)
    \/ \E m \in Names : Fork(m)
    \/ \E m \in Names : DescExit(m)
    \/ \E m \in Names : ChildWrites(m)
    \/ \E m \in Names : ReaderReads(m)
    \/ \E m \in Names : CallbackReturns(m)
    \/ \E m \in Names : CallbackRaises(m)
    \/ \E m \in Names : LogDone(m)

SpecExec == ExecInit /\ [][NextExec]_vars

\* ------------------------------------------------- execution, scheduled fairly
\* The run of the single module without caller cancellations and output
\* lines, under the scheduling the event loop and the kernel guarantee.
NextLive ==
    \/ RunStart
    \/ RunTaskStep
    \/ RunTaskDone
    \/ RunMainStep
    \/ \E m \in Names : ProcExit(m)
    \/ \E m \in Names : Connected(m)
    \/ \E m \in Names : ReaderEOF(m)
    \/ \E m \in Names : TimerExpires(m)
    \/ \E m \in Names : Fork(m)
    \/ \E m \in Names : DescExit(m)

\* The loop runs every ready handle and every timer that is due; the pipes of
\* a spawned child get connected; a process that was sent SIGKILL dies and is
\* reaped; a pipe that no process holds delivers end-of-file. Nothing makes a
\* running process, or a descendant that is not killed, exit.
FairLoop ==
    /\ WF_vars(RunStart)
    /\ WF_vars(RunTaskStep)
    /\ WF_vars(RunTaskDone)
    /\ WF_vars(RunMainStep)
    /\ \A m \in Names :
          /\ WF_vars(Connected(m))
          /\ WF_vars(TimerExpires(m))
          /\ WF_vars(proc[m] = "killed" /\ ProcExit(m))
          /\ WF_vars(proc[m] # "running" /\ ReaderEOF(m))

SpecLive == ExecInit /\ [][NextLive]_vars /\ FairLoop

\* ------------------------------------------------ the child's environment
\* Environment variables: names and values, and the mappings over them.
EnvKeys == {"A", "B"}
EnvValues == {"p", "q"}
Envs == UNION {[D -> EnvValues] : D \in SUBSET EnvKeys}

\* executor.py:63-67 _build_env: a copy of os.environ, updated with env when
\* env is given and not empty.
BuildEnv(base, env) ==
    IF env = None \/ DOMAIN The(env) = {} THEN base
    ELSE [k \in DOMAIN base \cup DOMAIN The(env) |->
             IF k \in DOMAIN The(env) THEN The(env)[k] ELSE base[k]]

\* orchestrator.py:97-99: ModuleExecutor(module_path=spec.path,
\* env=dict(spec.env) if spec.env else None), whose __init__ (executor.py:61)
\* stores self._build_env(env) in self.env.
NewExecutor ==
    /\ exeEnv = None
    /\ exeEnv' = Some(BuildEnv(environ,
                                IF specEnv = None \/ DOMAIN The(specEnv) = {}
                                THEN None ELSE specEnv))
    /\ UNCHANGED <<modules, concurrency, fail_fast, orch, ctorError, levels,
                   environ, specEnv, childEnv, loopVars, callerCancels,
                   streamVars>>

\* orchestrator.py:100-108 calls execute without an env argument, and
\* executor.py:128 spawns the child with env=self._build_env(env) of that
\* parameter, whose default is None.
SpawnChild ==
    /\ exeEnv # None /\ childEnv = None
    /\ childEnv' = Some(BuildEnv(environ, None))
    /\ UNCHANGED <<modules, concurrency, fail_fast, orch, ctorError, levels,
                   environ, specEnv, exeEnv, loopVars, callerCancels,
                   streamVars>>

\* A module with any spec.env, run under any parent environment.
InitEnv ==
    /\ modules = << >> /\ concurrency = 1 /\ fail_fast = TRUE
    /\ orch = "none" /\ ctorError = "none" /\ levels = << >>
    /\ LoopInit
    /\ environ \in Envs
    /\ specEnv \in {None} \cup {Some(e) : e \in Envs}
    /\ exeEnv = None /\ childEnv = None
    /\ StreamsIdle

NextEnv == NewExecutor \/ SpawnChild

SpecEnv == InitEnv /\ [][NextEnv]_vars

Next ==
    \/ Declare
    \/ NewOrchestrator
    \/ RunStart
    \/ RunTaskStep
    \/ RunTaskDone
    \/ RunMainStep
    \/ CallerCancel
    \/ \E m \in Names : ProcExit(m)
    \/ \E m \in Names : Connected(m)
    \/ \E m \in Names : ReaderEOF(m)
    \/ \E m \in Names : TimerExpires(m)

Spec == Init /\ [][Next]_vars

\* Construction alone, over the larger graphs.
NextLevels == DeclareGraph \/ NewOrchestrator

SpecLevels == Init /\ [][NextLevels]_vars

\* --------------------------------------------- the streams of an execution
\* orchestrator.py:49: self._default_stdout_cb = default_stdout_cb or
\* (lambda s: None)
DefaultStdout(dflt) == IF dflt = None THEN Some("noop") ELSE dflt

\* orchestrator.py:102: stdout_cb=spec.stdout_cb or self._default_stdout_cb
StdoutCallback(own, dflt) == IF own # None THEN own ELSE DefaultStdout(dflt)

\* A variant that passes the module's own stderr callback only.
StderrCallbackOwnOnly(own, dflt) == own

\* orchestrator.py:103-105: stderr_cb=spec.stderr_cb if it is not None else
\* self._default_stderr_cb (orchestrator.py:50, which may be None)
StderrCallback(own, dflt) == IF own # None THEN own ELSE dflt

\* executor.py:121-150: stdout is always a pipe with a reader; stderr is a
\* pipe with a reader when stderr_cb is given, else it is the stdout pipe.
Captured(errcb) == IF errcb # None THEN Streams ELSE {"stdout"}

\* The stream on which a line written to file descriptor fd arrives.
StreamOf(fd, capt) == IF fd = 2 /\ "stderr" \in capt THEN "stderr" ELSE "stdout"

\* executor.py:136, 145: the callback the reader of a stream was created with
CallbackOf(st) == IF st = "stderr" THEN The(stderr_cb) ELSE The(stdout_cb)

\* A variant that starts the dispatch of a line without awaiting the last.
ReaderAlwaysFree(run, st) == TRUE

\* executor.py:90-97: the reader calls readline() again only when the
\* awaited dispatch of the previous line has ended.
ReaderFree(run, st) == run[st] = {}

\* _run_one calls execute with the callbacks in force, and execute spawns
\* the child and creates the readers.
Execute ==
    /\ stdout_cb = None
    /\ stdout_cb' = StdoutCallback(spec_stdout_cb, default_stdout_cb)
    /\ stderr_cb' = StderrCallback(spec_stderr_cb, default_stderr_cb)
    /\ captured' = Captured(stderr_cb')
    /\ UNCHANGED <<modules, concurrency, fail_fast, orch, ctorError, levels,
                   envVars, loopVars, callerCancels, spec_stdout_cb,
                   spec_stderr_cb, default_stdout_cb, default_stderr_cb, pipe,
                   nlines, running, events>>

\* The child writes a line to its stdout (fd 1) or its stderr (fd 2).
WriteLine(fd) ==
    /\ stdout_cb # None /\ nlines < MaxWrites
    /\ nlines' = nlines + 1
    /\ pipe' = [pipe EXCEPT ![StreamOf(fd, captured)] =
                    Append(@, [fd |-> fd, n |-> nlines + 1])]
    /\ UNCHANGED <<modules, concurrency, fail_fast, orch, ctorError, levels,
                   envVars, loopVars, callerCancels, spec_stdout_cb,
                   spec_stderr_cb, default_stdout_cb, default_stderr_cb,
                   stdout_cb, stderr_cb, captured, running, events>>

\* executor.py:91-97: readline() returns the stream's next line and the
\* reader dispatches it to its callback.
ReadLine(st) ==
    /\ st \in captured /\ pipe[st] # << >> /\ ReaderFree(running, st)
    /\ pipe' = [pipe EXCEPT ![st] = Tail(@)]
    /\ running' = [running EXCEPT ![st] = @ \cup {Head(pipe[st])}]
    /\ events' = Append(events, [stream |-> st, cb |-> CallbackOf(st),
                                 line |-> Head(pipe[st]), ev |-> "start"])
    /\ UNCHANGED <<modules, concurrency, fail_fast, orch, ctorError, levels,
                   envVars, loopVars, callerCancels, spec_stdout_cb,
                   spec_stderr_cb, default_stdout_cb, default_stderr_cb,
                   stdout_cb, stderr_cb, captured, nlines>>

\* executor.py:72-78: the callback of a line returns or raises; the dispatch
\* ends either way.
CallbackEnds(st) ==
    /\ \E l \in running[st] :
          /\ running' = [running EXCEPT ![st] = @ \ {l}]
          /\ events' = Append(events, [stream |-> st, cb |-> CallbackOf(st),
                                       line |-> l, ev |-> "end"])
    /\ UNCHANGED <<modules, concurrency, fail_fast, orch, ctorError, levels,
                   envVars, loopVars, callerCancels, spec_stdout_cb,
                   spec_stderr_cb, default_stdout_cb, default_stderr_cb,
                   stdout_cb, stderr_cb, captured, pipe, nlines>>

\* Any choice of the module's own callbacks and of the defaults.
InitStreams ==
    /\ modules = << >> /\ concurrency = 1 /\ fail_fast = TRUE
    /\ orch = "none" /\ ctorError = "none" /\ levels = << >>
    /\ LoopInit
    /\ EnvIdle
    /\ spec_stdout_cb \in {None, Some("own_out")}
    /\ spec_stderr_cb \in {None, Some("own_err")}
    /\ default_stdout_cb \in {None, Some("default_out")}
    /\ default_stderr_cb \in {None, Some("default_err")}
    /\ stdout_cb = None /\ stderr_cb = None
    /\ captured = {} /\ nlines = 0
    /\ pipe = [s \in Streams |-> << >>]
    /\ running = [s \in Streams |-> {}]
    /\ events = << >>

NextStreams ==
    \/ Execute
    \/ \E fd \in {1, 2} : WriteLine(fd)
    \/ \E st \in Streams : ReadLine(st)
    \/ \E st \in Streams : CallbackEnds(st)

SpecStreams == InitStreams /\ [][NextStreams]_vars

\* ============================================================== properties
\* What a configuration is, stated without the algorithm.
DeclaredNames == {modules[i].name : i \in 1..Len(modules)}

UniqueNames ==
    \A i, j \in 1..Len(modules) : modules[i].name = modules[j].name => i = j

DepsOf(n) == UNION {Range(modules[i].deps) : i \in {j \in 1..Len(modules) : modules[j].name = n}}

KnownDeps == \A n \in DeclaredNames : DepsOf(n) \subseteq DeclaredNames

\* The names reachable from n along at least one and at most k dependency edges.
RECURSIVE Upstream(_, _)
Upstream(n, k) ==
    IF k = 0 THEN {}
    ELSE DepsOf(n) \cup UNION {Upstream(d, k - 1) : d \in DepsOf(n)}

Acyclic == \A n \in DeclaredNames : n \notin Upstream(n, Len(modules))

ValidConfig == concurrency >= 1 /\ UniqueNames /\ KnownDeps /\ Acyclic

\* The places of self._levels where name n stands.
PlacesOf(n) ==
    {<<k, i>> \in (1..Len(levels)) \X (1..Len(modules)) :
        i <= Len(levels[k]) /\ levels[k][i] = n}

LevelOf(n) == (CHOOSE p \in PlacesOf(n) : TRUE)[1]

\* C1: for an acyclic graph over uniquely named modules (all dependencies
\* known), levelization returns levels in which every module stands exactly
\* once, no other name stands, and every dependency of a module stands in a
\* strictly earlier level than the module.
C1_Levelization ==
    (orch # "none" /\ ValidConfig) =>
        /\ orch = "ok"
        /\ \A n \in DeclaredNames : Cardinality(PlacesOf(n)) = 1
        /\ \A k \in 1..Len(levels) : Range(levels[k]) \subseteq DeclaredNames
        /\ \A n \in DeclaredNames : \A d \in DepsOf(n) : LevelOf(d) < LevelOf(n)

\* Three modules levelized into three levels, one of them naming the same
\* dependency twice.
C1_Witness ==
    /\ orch = "ok" /\ Len(modules) = 3 /\ Len(levels) = 3
    /\ \E i \in 1..Len(modules) :
          Len(modules[i].deps) = 2 /\ modules[i].deps[1] = modules[i].deps[2]

\* C2: a configuration with an unknown dependency, a dependency cycle (a
\* self-dependency included), a repeated module name or concurrency < 1 makes
\* the constructor raise ValueError: no orchestrator exists, run() never
\* starts and no process is spawned; a valid configuration is accepted, and
\* run() itself never raises a configuration error.
C2_InvalidConfigRejected ==
    /\ orch # "none" =>
          /\ (orch = "error") <=> ~ValidConfig
          /\ (orch = "error") <=> (ctorError # "none")
          /\ ~KnownDeps /\ concurrency >= 1 /\ UniqueNames
                => ctorError = "unknown dependency"
          /\ ~Acyclic /\ KnownDeps /\ concurrency >= 1 /\ UniqueNames
                => ctorError = "cycle"
          /\ ~UniqueNames /\ concurrency >= 1 => ctorError = "duplicate name"
          /\ concurrency < 1 => ctorError = "concurrency"
    /\ orch # "ok" =>
          /\ mainPc = "idle"
          /\ \A m \in Names : pc[m] = "idle" /\ proc[m] = "none"
    /\ runError.type \in {"none", "CancelledError", "ExceptionGroup",
                          "OrchestrationError"}
    /\ runError.type = "ExceptionGroup" =>
          \A i \in 1..Len(runError.errors) :
              runError.errors[i].error \in {"ProcessError", "TimeoutError", "OSError"}

\* A two-module dependency cycle was rejected by the constructor.
C2_Witness ==
    /\ orch = "error" /\ ctorError = "cycle"
    /\ Len(modules) = 2 /\ modules[1].name # modules[2].name
    /\ concurrency >= 1

\* ------------------------------------------------------------ the limiter
\* Module m's task is inside `async with sem` (orchestrator.py:96-109).
Holding(m) ==
    pc[m] \in {"spawn", "spawnclean", "wait", "drain", "grace", "killwait",
               "cdrain", "edrain"}

\* An execution is active: it holds the limiter and its child runs.
Active(m) == Holding(m) /\ proc[m] \in {"running", "killed"}

\* Waiters the semaphore has handed a permit to and that have not resumed.
Granted == {i \in 1..Len(semWaiters) : semWaiters[i].state = "granted"}

\* C3: during run() at most `concurrency` module executions are active at
\* once, under every interleaving; the permits of the one semaphore of the
\* run are conserved across levels (free + held + handed over = concurrency).
C3_ConcurrencyCeiling ==
    mainPc # "idle" =>
        /\ Cardinality({m \in Names : Active(m)}) <= concurrency
        /\ semValue >= 0
        /\ semValue + Cardinality({m \in Names : Holding(m)})
              + Cardinality(Granted) = concurrency

\* With one permit, one module runs its process while the other waits for
\* the limiter.
C3_Witness ==
    /\ concurrency = 1
    /\ \E m, n \in Names : Active(m) /\ pc[n] = "acquire"

\* ----------------------------------------------------------------- levels
Started(m) == pc[m] # "idle"

\* The module's task has ended and it left no process running.
Completed(m) == pc[m] = "done" /\ proc[m] \notin {"running", "killed"}

\* C4: in both modes, a module is started (its task created, hence before it
\* acquires the limiter or spawns) only when every module of every earlier
\* level has completed; in particular all its declared dependencies have.
C4_LevelsInOrder ==
    orch = "ok" =>
        \A m \in DeclaredNames :
            Started(m) =>
                /\ \A n \in DeclaredNames : LevelOf(n) < LevelOf(m) => Completed(n)
                /\ \A d \in DepsOf(m) : Completed(d)

\* A module of the second level runs its process after its dependency's
\* process has exited.
C4_Witness ==
    /\ orch = "ok"
    /\ \E m \in DeclaredNames :
          /\ proc[m] = "running" /\ pc[m] = "wait"
          /\ \E d \in DepsOf(m) : proc[d] = "exited"

\* C5: a module's outcome is written at most once and in at most one of the
\* two mappings, and only once all its declared dependencies have completed.
C5_RecordedOnce ==
    \A m \in Names :
        /\ recorded[m] <= 1
        /\ ~(m \in DOMAIN results /\ m \in DOMAIN failures)
        /\ (m \in DOMAIN results \/ m \in DOMAIN failures) =>
              /\ recorded[m] = 1
              /\ m \in DeclaredNames
              /\ \A d \in DepsOf(m) : Completed(d)

\* Aggregate mode: a dependency is filed under failures and its dependent
\* under results.
C5_Witness ==
    \E m \in DOMAIN results : \E d \in DepsOf(m) : d \in DOMAIN failures

\* ---------------------------------------------------------------- fail-fast
Errors == {"ProcessError", "TimeoutError", "OSError"}

Failed(m) == outcome[m] \in Errors

\* C6 as stated: in fail-fast mode, once a module has failed no module that
\* had not spawned its process spawns one.
C6_NoSpawnAfterFailure ==
    [][(fail_fast /\ \E m \in Names : Failed(m)) =>
          \A n \in Names : proc[n] = "none" => proc'[n] = "none"]_vars

\* C7 as stated: in fail-fast mode, when run() raises for a failure, the
\* process of every cancelled sibling has exited.
C7_SiblingsExitedBeforeRaise ==
    (fail_fast /\ callerCancels = 0 /\ mainPc = "raised") =>
        \A m \in Names : outcome[m] = "cancelled" => proc[m] # "running"

\* C8 as stated: in fail-fast mode run() surfaces exactly one module error.
C8_ExactlyOneError ==
    (fail_fast /\ mainPc = "raised" /\ runError.type # "CancelledError") =>
        Len(runError.errors) = 1

\* ---------------------------------------------------------------- aggregate
\* The last level of an aggregate run has completed (the caller did not
\* cancel the run).
AggregateDone ==
    ~fail_fast /\ mainPc \in {"returned", "raised"}
               /\ runError.type # "CancelledError"

FailedModules == {m \in DeclaredNames : outcome[m] # "ok"}

\* C9: when an aggregate run ends, results has one entry per module that did
\* not fail and failures one entry per module that failed, holding its error;
\* the key sets are disjoint and together are the module set; run() raises
\* OrchestrationError carrying failures iff some module failed and otherwise
\* returns; and every value written to results is the exit code of the
\* module's process.
C9_AggregateOutcome ==
    /\ [](AggregateDone =>
            /\ DOMAIN failures = FailedModules
            /\ DOMAIN results = DeclaredNames \ FailedModules
            /\ Cardinality(DOMAIN results)
                  = Len(modules) - Cardinality(FailedModules)
            /\ \A m \in FailedModules :
                  failures[m] = outcome[m] /\ Failed(m)
            /\ \A m \in DOMAIN results :
                  proc[m] = "exited" /\ (Mod(m).check => results[m] = 0)
            /\ IF FailedModules # {}
               THEN mainPc = "raised"
                    /\ runError = [type |-> "OrchestrationError",
                                   errors |-> failures]
               ELSE mainPc = "returned" /\ runError = NoError)
    /\ [][\A m \in Names :
            (m \in DOMAIN results' /\ m \notin DOMAIN results) =>
                returncode[m] = {results'[m]}]_vars

\* An aggregate run of two modules ended with one failure and one result.
C9_Witness ==
    /\ AggregateDone
    /\ Cardinality(FailedModules) = 1 /\ Cardinality(DOMAIN results) = 1

\* C10: in aggregate mode, unless the caller cancels the run, no module task
\* is ever cancelled, and when run() ends every module of every level has
\* been attempted (its process was spawned, or the spawn raised), whatever
\* the outcomes of its siblings and of its dependencies.
C10_AllAttempted ==
    (~fail_fast /\ callerCancels = 0) =>
        /\ \A m \in Names : ~cancelReq[m] /\ outcome[m] # "cancelled"
        /\ mainPc \in {"returned", "raised"} =>
              \A m \in DeclaredNames :
                  /\ outcome[m] \notin {"none", "cancelled"}
                  /\ proc[m] # "none" \/ outcome[m] = "OSError"

\* A module whose declared dependency failed has run its process, and so
\* has a module whose sibling failed.
C10_Witness ==
    /\ ~fail_fast /\ callerCancels = 0
    /\ \E m \in DeclaredNames :
          /\ proc[m] = "exited" /\ outcome[m] = "ok"
          /\ \E d \in DepsOf(m) : Failed(d)

\* What the caller of run() can read of the result mapping: the returned
\* value, or a mapping the raised error carries.
CallerResults ==
    IF returned # None THEN The(returned)
    ELSE IF "results" \in DOMAIN runError THEN runError.results
    ELSE EmptyMap

\* C11 as stated: when an aggregate run ends with OrchestrationError, the
\* exit code of every module that succeeded can be obtained by the caller.
C11_PartialResultsKept ==
    (mainPc = "raised" /\ runError.type = "OrchestrationError") =>
        \A m \in DOMAIN results :
            m \in DOMAIN CallerResults /\ CallerResults[m] = results[m]

\* ------------------------------------------------------------- check=False
Unchecked == {m \in DeclaredNames : orch = "ok" /\ ~Mod(m).check}

\* C12: a module with check=False never ends with ProcessError, whatever the
\* exit code: when its process has exited by itself and its output is
\* drained, execute returns, the code is written unchanged to results under
\* the module's name and the module is neither a failure nor an error of the
\* TaskGroup; it fails only by a timeout, a spawn error or a cancellation.
C12_UncheckedExitCode ==
    /\ [](\A m \in Unchecked :
            /\ outcome[m] # "ProcessError" /\ cause[m] # "ProcessError"
            /\ outcome[m] = "TimeoutError" => Mod(m).timeout
            /\ outcome[m] = "ok" =>
                  m \in DOMAIN results /\ m \notin DOMAIN failures
            /\ \A i \in 1..Len(tgErrors) :
                  tgErrors[i].m = m => tgErrors[i].error \in {"TimeoutError", "OSError"})
    /\ [][\A m \in Unchecked :
            (pc[m] = "drain" /\ pc'[m] = "done" /\ ~cancelReq[m]) =>
                /\ outcome'[m] = "ok"
                /\ m \in DOMAIN results' /\ returncode[m] = {results'[m]}
                /\ tgErrors' = tgErrors /\ failures' = failures
                /\ \A n \in Names : cancelReq'[n] = cancelReq[n]]_vars

\* Fail-fast: a check=False module exited with code 1, which is in results,
\* and a module of the next level has spawned its process.
C12_Witness ==
    /\ fail_fast
    /\ \E m \in Unchecked :
          /\ m \in DOMAIN results /\ results[m] = 1
          /\ \E n \in DeclaredNames : m \in DepsOf(n) /\ proc[n] = "running"

\* ---------------------------------------------------------------- timeout
\* The module's timeout has expired and execute has not ended yet.
TimedOut(m) ==
    \/ pc[m] = "wait" /\ timerFired[m]
    \/ cause[m] = "TimeoutError"

\* C13 as stated: once the timeout has expired, execute ends only by raising
\* the timeout error, and no exit code is recorded for the module.
C13_AlwaysTimeoutError ==
    [][\A m \in Names :
          TimedOut(m) =>
              /\ outcome'[m] \in {"none", "TimeoutError"}
              /\ m \notin DOMAIN results']_vars

\* C13 amended: once the timeout has expired, execute ends by raising the
\* timeout error, or CancelledError when its task was cancelled before the
\* termination finished; for check=True and check=False alike it never
\* returns an exit code, never raises ProcessError, and results never gets
\* an entry for the module.
C13_TimeoutNeverExitCode ==
    [][\A m \in Names :
          TimedOut(m) =>
              /\ outcome'[m] \in {"none", "TimeoutError", "cancelled"}
              /\ outcome'[m] = "cancelled" => cancelReq[m]
              /\ cause'[m] # "ProcessError"
              /\ m \notin DOMAIN results']_vars

\* A check=True module timed out, its process was terminated by SIGTERM, and
\* the task ended with the timeout error.
C13_Witness ==
    \E m \in DeclaredNames :
        /\ orch = "ok" /\ Mod(m).check
        /\ outcome[m] = "TimeoutError" /\ termSent[m] /\ proc[m] = "exited"


\* A member of the module's process group still executes: the child, unless
\* it was sent SIGKILL, or a descendant of it.
GroupRunning(m) == proc[m] = "running" \/ desc[m] \in {"piped", "detached"}

ReaderActive(m) == readers[m] \in {"active", "dispatch", "logging"}

\* C14: once execute has returned or raised, by whatever path, no member of
\* the module's process group (the child or a descendant) is running and no
\* stream reader is active.
C14_NothingLeftBehind ==
    \A m \in Names : pc[m] = "done" => ~GroupRunning(m) /\ ~ReaderActive(m)


\* C15: whenever execute has started to terminate the process group and then
\* raises, under any interleaving of timeout and cancellations, the cleanup
\* has run to completion: the process has exited (killed if it ignored the
\* graceful signal) and no stream reader is left active.
C15_CleanupCompletes ==
    \A m \in Names :
        (pc[m] = "done" /\ termSent[m]) => proc[m] = "exited" /\ ~ReaderActive(m)


\* run() has ended by raising the caller's cancellation.
RunCancelled ==
    callerCancels > 0 /\ mainPc = "raised" /\ runError.type = "CancelledError"

\* C16: when the caller cancels a run() in progress, in either mode, run()
\* finishes with the cancellation only after the process of every module has
\* exited, and a module that has no process then never gets one.
C16_CancelledRunLeavesNoProcess ==
    /\ [](RunCancelled => \A m \in Names : proc[m] # "running")
    /\ [][RunCancelled => \A m \in Names : proc[m] = "none" => proc'[m] = "none"]_vars


\* The parent's environment overlaid with the module's mapping.
Overlaid(parent, overlay) ==
    LET o == IF overlay = None THEN EmptyMap ELSE The(overlay)
    IN [k \in DOMAIN parent \cup DOMAIN o |->
           IF k \in DOMAIN o THEN o[k] ELSE parent[k]]

\* C17: the child's environment is the parent's environment overlaid with
\* spec.env (every key of spec.env with the module's value, every other key
\* with the parent's value), and the parent's environment is not modified.
C17_ChildEnvOverlaid ==
    /\ [](childEnv # None => The(childEnv) = Overlaid(environ, specEnv))
    /\ [][environ' = environ]_vars


\* The callback of module m's reader raises in this step.
CallbackFails(m) == readers[m] = "dispatch" /\ readers'[m] = "logging"

CallbackRunning(m) == readers[m] = "dispatch"

C20_TerminationOrdered ==
    [][\A m \in Names :
        /\ (pc[m] \in {"wait", "drain"} /\ pc'[m] = "grace") => termSent'[m]
        /\ (~killSent[m] /\ killSent'[m]) =>
               termSent[m] /\ pc[m] = "grace" /\ timerFired[m]
        /\ (termSent[m] /\ pc[m] # "done" /\ pc'[m] = "done") =>
               pc[m] \notin {"grace", "killwait"}
      ]_vars


\* run() has returned or raised.
RunEnded == mainPc \in {"returned", "raised"}

\* C21: a module holds the limiter when its process is spawned; the permit is
\* given back on every exit path, and only once the module's process has
\* terminated; when run() has ended every permit is free again.
C21_LimiterHeldWhileProcessLives ==
    /\ [](\A m \in Names : pc[m] = "done" => proc[m] # "running")
    /\ [](RunEnded => semValue = concurrency /\ Granted = {})
    /\ [][\A m \in Names :
            (proc[m] = "none" /\ proc'[m] # "none") => Holding(m)']_vars


\* The same module specs supplied otherwise: the list in another order, and
\* each deps list in another order or with names repeated.
Perms(n) == {p \in [1..n -> 1..n] : \A i, j \in 1..n : p[i] = p[j] => i = j}

DepsVariants(d) ==
    {e \in SeqsUpTo(GraphNames, MaxGraphDeps) : Range(e) = Range(d)}

RECURSIVE VariantSeqs(_)
VariantSeqs(mods) ==
    IF mods = << >> THEN {<< >>}
    ELSE {<<[Head(mods) EXCEPT !.deps = e]>> \o t :
             e \in DepsVariants(Head(mods).deps), t \in VariantSeqs(Tail(mods))}

Resupplied(mods) ==
    UNION {VariantSeqs([i \in 1..Len(mods) |-> mods[p[i]]]) :
              p \in Perms(Len(mods))}

\* C22: levelization is deterministic: every level is sorted by name, and
\* the same specs supplied in any other order, with any order or repetition
\* of the names in their deps lists, give the same list of levels.
C22_LevelsReproducible ==
    orch = "ok" =>
        /\ \A k \in 1..Len(levels) : \A i, j \in 1..Len(levels[k]) :
               i < j => Rank(levels[k][i]) < Rank(levels[k][j])
        /\ \A ms \in Resupplied(modules) :
               Construct(ms, concurrency) = [error |-> "none", levels |-> levels]

\* Three modules supplied against the order of their names, one with two
\* dependencies that share the first level.
C22_Witness ==
    /\ orch = "ok" /\ Len(modules) = 3 /\ Len(levels) = 2 /\ Len(levels[1]) = 2
    /\ Rank(modules[1].name) > Rank(modules[2].name)
    /\ \E i \in 1..3 : Len(modules[i].deps) = 2
                          /\ Rank(modules[i].deps[1]) > Rank(modules[i].deps[2])


\* The callbacks the claim names, from what was configured.
OwnOrDefaultStdout ==
    IF spec_stdout_cb # None THEN The(spec_stdout_cb)
    ELSE IF default_stdout_cb # None THEN The(default_stdout_cb) ELSE "noop"

OwnOrDefaultStderr ==
    IF spec_stderr_cb # None THEN spec_stderr_cb ELSE default_stderr_cb

\* C23: the stdout callback is the module's own, else the orchestrator's
\* default, else a no-op; the stderr callback is the module's own, else the
\* orchestrator's default. stderr is captured separately iff a stderr
\* callback exists, and then its lines go to that callback only; otherwise
\* its lines arrive on the stdout stream and go to the stdout callback.
\* Lines written to stdout always go to the stdout callback.
C23_StderrRouting ==
    stdout_cb # None =>
        /\ The(stdout_cb) = OwnOrDefaultStdout
        /\ stderr_cb = OwnOrDefaultStderr
        /\ ("stderr" \in captured) <=> (OwnOrDefaultStderr # None)
        /\ \A i \in 1..Len(events) :
              LET e == events[i]
              IN IF e.line.fd = 2 /\ OwnOrDefaultStderr # None
                 THEN e.cb = The(OwnOrDefaultStderr) /\ e.stream = "stderr"
                 ELSE e.cb = OwnOrDefaultStdout /\ e.stream = "stdout"

\* No stderr callback of its own, a default one: a stderr line went to the
\* default stderr callback and a stdout line to the no-op.
C23_Witness ==
    /\ spec_stderr_cb = None /\ default_stderr_cb # None
    /\ \E i, j \in 1..Len(events) :
          /\ events[i].line.fd = 2 /\ events[i].cb = "default_err"
          /\ events[j].line.fd = 1 /\ events[j].cb = "noop"


\* The callback invocation events[i] starts the callback of a line.
Starts(i) == events[i].ev = "start"

\* C24: within one captured stream callbacks run one at a time and in the
\* order in which the child wrote the lines: of two callbacks started on the
\* same stream, the earlier is for the line written earlier and has ended
\* before the later starts. Only callbacks of different streams overlap.
C24_OneAtATimeInOrder ==
    /\ \A st \in Streams : Cardinality(running[st]) <= 1
    /\ \A i, j \in 1..Len(events) :
          (i < j /\ Starts(i) /\ Starts(j) /\ events[i].stream = events[j].stream) =>
              /\ events[i].line.n < events[j].line.n
              /\ \E k \in (i + 1)..(j - 1) :
                    /\ events[k].ev = "end"
                    /\ events[k].stream = events[i].stream
                    /\ events[k].line = events[i].line

\* The second stdout line's callback runs, after the first one's has ended,
\* while a stderr line's callback is running too.
C24_Witness ==
    /\ running["stdout"] # {} /\ running["stderr"] # {}
    /\ \E k \in 1..Len(events) : events[k].ev = "end" /\ events[k].stream = "stdout"


\* Module m's output is drained: its reader reached end-of-file, having read
\* every line the child wrote, and the callback of every line has completed.
Drained(m) ==
    /\ readers[m] = "eof"
    /\ consumed[m] = written[m]
    /\ Len(calls[m]) = written[m]

\* C25: a module's exit code is returned and recorded in the result mapping,
\* and ProcessError is raised for a non-zero exit under check, only after the
\* module's output is drained: whenever the result or the ProcessError is
\* visible the output has been delivered, and it already was when the step
\* that records the result or raises the error began.
C25_ResultAfterDrain ==
    /\ [](\A m \in Names :
            (\/ m \in DOMAIN results
             \/ outcome[m] \in {"ok", "ProcessError"}
             \/ cause[m] = "ProcessError") => Drained(m))
    /\ [][\A m \in Names :
            (\/ m \notin DOMAIN results /\ m \in DOMAIN results'
             \/ cause[m] # "ProcessError" /\ cause'[m] = "ProcessError")
                => Drained(m)]_vars

\* The child wrote two lines, both callbacks returned, and the module's exit
\* code is in the result mapping.
C25_Witness ==
    \E m \in Names :
        /\ m \in DOMAIN results /\ outcome[m] = "ok"
        /\ written[m] = MaxLines /\ Len(calls[m]) = MaxLines
        /\ \A i \in 1..Len(calls[m]) : ~calls[m][i].raised


\* Every module declares a finite timeout.
AllTimeoutsFinite == \A i \in 1..Len(modules) : modules[i].timeout

\* C26: when every module declares a finite timeout, under fair scheduling
\* run() eventually returns or raises.
C26_RunEnds == AllTimeoutsFinite => <>RunEnded

====
